---- MODULE Spec2Model ----
(***************************************************************************)
(* Model of cumulusci/tasks/metadata/modify.py: the RemoveElementsXPath    *)
(* task (_init_options, _run_task, _process_element) and the serializer    *)
(* (has_content, salesforce_encoding).                                     *)
(*                                                                         *)
(* Text.  A Python str or bytes value is a sequence of atoms.  An atom is  *)
(* a TLA+ string standing for one character ("<", "&", "\n", ...) or for a *)
(* literal the program never looks inside (an element name, the XML        *)
(* declaration, an entity reference such as "&amp;", a namespace URI).     *)
(* Concatenation is \o, `x in y` is Contains, str.split is Split.          *)
(*                                                                         *)
(* Optional values.  Python None is the empty sequence <<>> and a value v  *)
(* that is present is <<v>>, so that None and the empty string differ.     *)
(*                                                                         *)
(* Trees.  An lxml document is an arena: a sequence of nodes in the order  *)
(* the parser met them (document order), each with the index of its parent *)
(* (0 for getparent() = None) and the indices of its children.  Node 1 is  *)
(* the root element.                                                       *)
(*                                                                         *)
(* Left out: the chdir option and the logger calls, which change nothing   *)
(* the task reads back.                                                    *)
(***************************************************************************)
EXTENDS Integers, Sequences, FiniteSets, TLC

\* ------------------------------------------------------------ Python values

None == <<>>

Some(v) == <<v>>

\* bool(s) of an optional string: None and "" are falsy.
TruthyStr(o) == o # <<>> /\ o[1] # <<>>

\* A bytes object and a str object: `==` between the two types is False in
\* Python 3 whatever the data, and `!=` is True.
Bytes(data) == [type |-> "bytes", data |-> data]

Str(data) == [type |-> "str", data |-> data]

PyNe(a, b) == a # b

\* needle in hay, for str.
Contains(needle, hay) ==
    \E i \in 1..(Len(hay) - Len(needle) + 1) :
        SubSeq(hay, i, i + Len(needle) - 1) = needle

RECURSIVE IndexFrom(_, _, _)
\* The least index >= i of an atom of s that is in set cs, or Len(s)+1.
IndexFrom(s, i, cs) ==
    IF i > Len(s) THEN Len(s) + 1
    ELSE IF s[i] \in cs THEN i
    ELSE IndexFrom(s, i + 1, cs)

RECURSIVE Split(_, _)
\* s.split(sep) for a one-atom separator: the list of the pieces.
Split(s, sep) ==
    LET i == IndexFrom(s, 1, {sep})
    IN  IF i > Len(s) THEN <<s>>
        ELSE <<SubSeq(s, 1, i - 1)>> \o Split(SubSeq(s, i + 1, Len(s)), sep)

RECURSIVE Replace(_, _, _)
\* s.replace(c, to) for a one-atom c.
Replace(s, c, to) ==
    IF s = <<>> THEN <<>>
    ELSE (IF Head(s) = c THEN to ELSE <<Head(s)>>) \o Replace(Tail(s), c, to)

\* ---------------------------------------------------------------- constants

XmlDecl == "<?xml version=\"1.0\" encoding=\"UTF-8\"?>"

\* modify.py:11
xml_encoding == <<XmlDecl, "\n">>

SfUri == "http://soap.sforce.com/2006/04/metadata"

\* modify.py:12, SF_NS (a name TLA+ reads as a fairness operator)
SFNS == <<SfUri>>

\* ------------------------------------------------- xml.sax.saxutils.escape

\* escape(data, {"'": "&apos;", '"': "&quot;"}): & > < first, then the
\* entities of the dictionary.
escape(data) ==
    Replace(Replace(Replace(Replace(Replace(data,
        "&", <<"&amp;">>), ">", <<"&gt;">>), "<", <<"&lt;">>),
        "'", <<"&apos;">>), "\"", <<"&quot;">>)

\* ------------------------------------------------------------ lxml: the tree

\* An element or comment of the tree.  tag is the lxml tag, "{uri}local" or
\* "local"; attrib the attributes in insertion order; nsdecl the default
\* namespace the element declares (not an attribute in lxml); text and tail
\* are optional strings; a comment keeps its body in text.
Node(kind, tag, attrib, nsdecl, parent) ==
    [kind |-> kind, tag |-> tag, attrib |-> attrib, nsdecl |-> nsdecl,
     text |-> None, tail |-> None, parent |-> parent, children |-> <<>>]

\* Appends node n as the last child of its parent; its index is the result's
\* length.
AddNode(nodes, n) ==
    LET id == Len(nodes) + 1
        linked == IF n.parent = 0 THEN nodes
                  ELSE [nodes EXCEPT ![n.parent].children = Append(@, id)]
    IN  Append(linked, n)

\* Element.getroot() of the ElementTree: the first node parsed.
getroot == 1

\* element.getparent(): 0 stands for None.
getparent(nodes, e) == nodes[e].parent

\* The atom of s at i, "" past the end.
At(s, i) == IF i \in 1..Len(s) THEN s[i] ELSE ""

Entities == {"&amp;", "&lt;", "&gt;", "&apos;", "&quot;"}

\* The character an entity reference stands for; any other atom is itself.
Decode(a) ==
    CASE a = "&amp;" -> "&"
      [] a = "&lt;" -> "<"
      [] a = "&gt;" -> ">"
      [] a = "&apos;" -> "'"
      [] a = "&quot;" -> "\""
      [] OTHER -> a

NonName ==
    {"", "<", ">", "/", "=", "\"", "'", "&", " ", "\n", "<!--", "-->", "{", "}",
     XmlDecl} \cup Entities

IsName(a) == a \notin NonName

WhiteSpace == {" ", "\n"}

RECURSIVE SkipWS(_, _)
SkipWS(s, pos) ==
    IF At(s, pos) \in WhiteSpace THEN SkipWS(s, pos + 1) ELSE pos

RECURSIVE ParseText(_, _, _)
\* Character data from pos up to the next markup: a bare & is not well-formed.
ParseText(s, pos, acc) ==
    LET a == At(s, pos)
    IN  IF a \in {"", "<", "<!--"} THEN [ok |-> TRUE, pos |-> pos, text |-> acc]
        ELSE IF a = "&" THEN [ok |-> FALSE, pos |-> pos, text |-> acc]
        ELSE ParseText(s, pos + 1, Append(acc, Decode(a)))

RECURSIVE ParseValue(_, _, _)
\* A double-quoted attribute value from pos up to the closing quote: a bare &
\* or < is not well-formed.
ParseValue(s, pos, acc) ==
    LET a == At(s, pos)
    IN  IF a = "\"" THEN [ok |-> TRUE, pos |-> pos + 1, text |-> acc]
        ELSE IF a \in {"", "&", "<", "<!--"}
             THEN [ok |-> FALSE, pos |-> pos, text |-> acc]
        ELSE ParseValue(s, pos + 1, Append(acc, Decode(a)))

HasKey(attrib, k) == \E i \in 1..Len(attrib) : attrib[i].k = k

RECURSIVE ParseAttrs(_, _, _, _)
\* The attributes of a start tag: xmlns="uri" is a namespace declaration and
\* is kept apart from the attributes.
ParseAttrs(s, pos, attrib, nsdecl) ==
    IF At(s, pos) = " " /\ IsName(At(s, pos + 1)) /\ At(s, pos + 2) = "="
       /\ At(s, pos + 3) = "\""
    THEN LET k == At(s, pos + 1)
             v == ParseValue(s, pos + 4, <<>>)
         IN  IF ~v.ok \/ HasKey(attrib, k) \/ (k = "xmlns" /\ nsdecl # None)
             THEN [ok |-> FALSE, pos |-> pos, attrib |-> attrib, nsdecl |-> nsdecl]
             ELSE IF k = "xmlns"
             THEN ParseAttrs(s, v.pos, attrib, Some(v.text))
             ELSE ParseAttrs(s, v.pos, Append(attrib, [k |-> k, v |-> v.text]), nsdecl)
    ELSE [ok |-> TRUE, pos |-> pos, attrib |-> attrib, nsdecl |-> nsdecl]

\* The lxml tag of a name in default namespace ns (None or "": no namespace).
QName(ns, name) ==
    IF TruthyStr(ns) THEN <<"{">> \o ns[1] \o <<"}", name>> ELSE <<name>>

Failed(pos, nodes) == [ok |-> FALSE, pos |-> pos, nodes |-> nodes, id |-> 0]

RECURSIVE ParseElement(_, _, _, _, _)
RECURSIVE ParseKids(_, _, _, _, _, _)

\* An element starting at pos, child of parent, in default namespace ns.
ParseElement(s, pos, parent, ns, nodes) ==
    IF At(s, pos) # "<" \/ ~IsName(At(s, pos + 1)) THEN Failed(pos, nodes)
    ELSE
    LET name == At(s, pos + 1)
        at == ParseAttrs(s, pos + 2, <<>>, None)
        ns2 == IF at.nsdecl # None THEN at.nsdecl ELSE ns
        added == AddNode(nodes, Node("element", QName(ns2, name), at.attrib,
                                     at.nsdecl, parent))
        id == Len(added)
    IN  IF ~at.ok THEN Failed(pos, nodes)
        ELSE IF At(s, at.pos) = "/" /\ At(s, at.pos + 1) = ">"
        THEN [ok |-> TRUE, pos |-> at.pos + 2, nodes |-> added, id |-> id]
        ELSE IF At(s, at.pos) # ">" THEN Failed(at.pos, nodes)
        ELSE
        LET t == ParseText(s, at.pos + 1, <<>>)
            withText == IF t.text = <<>> THEN added
                        ELSE [added EXCEPT ![id].text = Some(t.text)]
        IN  IF ~t.ok THEN Failed(t.pos, nodes)
            ELSE ParseKids(s, t.pos, id, name, ns2, withText)

\* The children of element id after its leading text, each with its tail, up
\* to and including the end tag </name>.
ParseKids(s, pos, id, name, ns, nodes) ==
    IF At(s, pos) = "<" /\ At(s, pos + 1) = "/"
    THEN IF At(s, pos + 2) = name /\ At(s, pos + 3) = ">"
         THEN [ok |-> TRUE, pos |-> pos + 4, nodes |-> nodes, id |-> id]
         ELSE Failed(pos, nodes)
    ELSE IF At(s, pos) = "<!--"
    THEN LET close == IndexFrom(s, pos + 1, {"-->"})
             added == AddNode(nodes, [Node("comment", <<>>, <<>>, None, id)
                                      EXCEPT !.text = Some(SubSeq(s, pos + 1, close - 1))])
             c == Len(added)
             t == ParseText(s, close + 1, <<>>)
             withTail == IF t.text = <<>> THEN added
                         ELSE [added EXCEPT ![c].tail = Some(t.text)]
         IN  IF close > Len(s) \/ ~t.ok THEN Failed(pos, nodes)
             ELSE ParseKids(s, t.pos, id, name, ns, withTail)
    ELSE IF At(s, pos) = "<"
    THEN LET e == ParseElement(s, pos, id, ns, nodes)
             t == ParseText(s, e.pos, <<>>)
             withTail == IF t.text = <<>> THEN e.nodes
                         ELSE [e.nodes EXCEPT ![e.id].tail = Some(t.text)]
         IN  IF ~e.ok THEN Failed(e.pos, nodes)
             ELSE IF ~t.ok THEN Failed(t.pos, nodes)
             ELSE ParseKids(s, t.pos, id, name, ns, withTail)
    ELSE Failed(pos, nodes)

\* ET.parse: an optional XML declaration, white space, the root element,
\* white space.  ok is FALSE for bytes that are not well-formed
\* (XMLSyntaxError).
parse(s) ==
    LET p0 == IF At(s, 1) = XmlDecl THEN 2 ELSE 1
        r == ParseElement(s, SkipWS(s, p0), 0, None, <<>>)
    IN  IF r.ok /\ SkipWS(s, r.pos) = Len(s) + 1
        THEN [ok |-> TRUE, nodes |-> r.nodes]
        ELSE [ok |-> FALSE, nodes |-> <<>>]

\* ----------------------------------------------- lxml: walking and querying

RECURSIVE DocOrder(_, _)
RECURSIVE DocOrderAll(_, _)
\* Node e and its descendants, in document order.
DocOrder(nodes, e) == <<e>> \o DocOrderAll(nodes, nodes[e].children)

DocOrderAll(nodes, kids) ==
    IF kids = <<>> THEN <<>>
    ELSE DocOrder(nodes, Head(kids)) \o DocOrderAll(nodes, Tail(kids))

\* The elements (not the comments) among the nodes of a sequence.
Elements(nodes, s) ==
    LET IsElement(e) == nodes[e].kind = "element" IN SelectSeq(s, IsElement)

\* An XPath expression.  k = "name": //ns:<name>, every element of that local
\* name in the namespace bound to ns.  k = "pos": (//*)[position() = i or ...]
\* for the i of set, the elements at those ranks of the document order (rank
\* 1 is the root, /*).  k = "bad": an expression that does not compile.
\* k = "empty": the empty string.
Query(k, name, set) == [k |-> k, name |-> name, set |-> set]

\* The namespaces argument of modify.py:88-91: ns is the Salesforce URI.
NsAlias == <<"{", SfUri, "}">>

\* root.xpath(expr, namespaces=...): the matching elements in document order,
\* or ok = FALSE for XPathEvalError.
xpath(nodes, q) ==
    LET all == Elements(nodes, DocOrder(nodes, getroot))
        Named(e) == nodes[e].tag = NsAlias \o <<q.name>>
        ranked == {i \in 1..Len(all) : i \in q.set}
        AtRank(e) == \E i \in ranked : all[i] = e
    IN  CASE q.k = "name" -> [ok |-> TRUE, res |-> SelectSeq(all, Named)]
          [] q.k = "pos" -> [ok |-> TRUE, res |-> SelectSeq(all, AtRank)]
          [] OTHER -> [ok |-> FALSE, res |-> <<>>]

\* remove, had it handed the tail of the removed element to what precedes
\* it: the previous sibling's tail, or the parent's text.
removeKeepingTail(nodes, parent, e) ==
    LET kids == nodes[parent].children
        i == CHOOSE k \in 1..Len(kids) : kids[k] = e
        NotE(c) == c # e
        t == nodes[e].tail
        cut == [nodes EXCEPT ![parent].children = SelectSeq(@, NotE),
                             ![e].parent = 0, ![e].tail = None]
        Plus(o) == Some((IF o = None THEN <<>> ELSE o[1]) \o t[1])
    IN  IF t = None THEN cut
        ELSE IF i = 1 THEN [cut EXCEPT ![parent].text = Plus(@)]
        ELSE [cut EXCEPT ![kids[i - 1]].tail = Plus(@)]

\* remove, had it cut the parent's children from the element on.
removeFromHere(nodes, parent, e) ==
    LET kids == nodes[parent].children
        i == CHOOSE k \in 1..Len(kids) : kids[k] = e
    IN  [nodes EXCEPT ![parent].children = SubSeq(kids, 1, i - 1),
                      ![e].parent = 0]

\* remove, had it taken the removed subtree apart: no node of it keeps its
\* parent.
removeClearingSubtree(nodes, parent, e) ==
    LET NotE(c) == c # e
        gone == {DocOrder(nodes, e)[k] : k \in 1..Len(DocOrder(nodes, e))}
    IN  [i \in 1..Len(nodes) |->
            IF i \in gone THEN [nodes[i] EXCEPT !.parent = 0]
            ELSE IF i = parent
            THEN [nodes[i] EXCEPT !.children = SelectSeq(@, NotE)]
            ELSE nodes[i]]

\* parent.remove(element): the element leaves its parent's children with its
\* subtree and its tail; the siblings keep their order.
remove(nodes, parent, e) ==
    LET NotE(c) == c # e
    IN  [nodes EXCEPT ![parent].children = SelectSeq(@, NotE), ![e].parent = 0]

Event(action, e) == [action |-> action, elem |-> e]

RECURSIVE iterwalk(_, _)
RECURSIVE iterwalkAll(_, _)
\* ET.iterwalk(xdoc, events=("start", "end", "start-ns", "end-ns",
\* "comment")) from node e: the events in order.
iterwalk(nodes, e) ==
    IF nodes[e].kind = "comment" THEN <<Event("comment", e)>>
    ELSE LET ns == nodes[e].nsdecl # None
         IN  (IF ns THEN <<Event("start-ns", e)>> ELSE <<>>)
             \o <<Event("start", e)>>
             \o iterwalkAll(nodes, nodes[e].children)
             \o <<Event("end", e)>>
             \o (IF ns THEN <<Event("end-ns", e)>> ELSE <<>>)

iterwalkAll(nodes, kids) ==
    IF kids = <<>> THEN <<>>
    ELSE iterwalk(nodes, Head(kids)) \o iterwalkAll(nodes, Tail(kids))

\* ------------------------------------------------------ modify.py:105-141

\* has_content, had it looked at the text alone.
has_content_text_only(nodes, e) == TruthyStr(nodes[e].text)

\* has_content(element): element.text or list(element); list(element) holds
\* the child elements and comments.
has_content(nodes, e) == TruthyStr(nodes[e].text) \/ nodes[e].children # <<>>

\* attrib[k] = v on an insertion-ordered mapping.
SetItem(attrib, k, v) ==
    IF HasKey(attrib, k)
    THEN [i \in 1..Len(attrib) |->
             IF attrib[i].k = k THEN [k |-> k, v |-> v] ELSE attrib[i]]
    ELSE Append(attrib, [k |-> k, v |-> v])

\* modify.py:111-112: the tree as salesforce_encoding leaves it.
ForceXmlns(nodes) ==
    IF Contains(SFNS, nodes[getroot].tag)
    THEN [nodes EXCEPT ![getroot].attrib = SetItem(@, "xmlns", SFNS)]
    ELSE nodes

\* modify.py:119-121 and 134-136: the tag without its namespace.
LocalTag(tag) == IF Contains(<<"}">>, tag) THEN Split(tag, "}")[2] ELSE tag

RECURSIVE JoinAttrs(_)
\* modify.py:128
JoinAttrs(attrib) ==
    IF attrib = <<>> THEN <<>>
    ELSE <<" ", Head(attrib).k, "=", "\"">> \o Head(attrib).v \o <<"\"">>
         \o JoinAttrs(Tail(attrib))

\* What one event of the walk adds to r (modify.py:116-140).
Emit(nodes, ev) ==
    LET elem == nodes[ev.elem]
        tag == LocalTag(elem.tag)
        text == IF elem.text # None THEN escape(elem.text[1]) ELSE <<>>
        attrs == JoinAttrs(elem.attrib)
    IN  CASE ev.action = "start-ns" -> <<>>
          [] ev.action = "start" ->
                IF ~has_content(nodes, ev.elem)
                THEN <<"<">> \o tag \o attrs \o <<"/", ">">>
                ELSE <<"<">> \o tag \o attrs \o <<">">> \o text
          [] ev.action = "end" /\ has_content(nodes, ev.elem) ->
                <<"<", "/">> \o tag \o <<">">>
                \o (IF TruthyStr(elem.tail) THEN elem.tail[1] ELSE <<"\n">>)
          [] ev.action = "comment" ->
                <<"<!--">> \o elem.text[1] \o <<"-->">>
                \o (IF TruthyStr(elem.tail) THEN elem.tail[1] ELSE <<>>)
          [] OTHER -> <<>>

RECURSIVE EmitAll(_, _)
EmitAll(nodes, evs) ==
    IF evs = <<>> THEN <<>>
    ELSE Emit(nodes, Head(evs)) \o EmitAll(nodes, Tail(evs))

\* salesforce_encoding(xdoc): the text r it returns.
salesforce_encoding(nodes) ==
    LET forced == ForceXmlns(nodes)
    IN  xml_encoding \o EmitAll(forced, iterwalk(forced, getroot))

\* ------------------------------------------------------------------- state

VARIABLES
    options,    \* self.options: xpath, path, elements, each optional
    elements,   \* self.elements: None before _init_options, then the steps
    fs,         \* the files of the working directory: name -> content
    pc,         \* where the task is: init_options, run, files, parse, xpath,
                \* remove, encode, compare, done, raised
    exc,        \* the exception that left the task, "" while none has
    stepIdx,    \* _run_task: index in self.elements of `element`
    globres,    \* _process_element: the list glob.glob returned
    fileIdx,    \* _process_element: index in globres of f
    orig,       \* _process_element: the bytes read
    root,       \* _process_element: the parsed tree (its nodes)
    res,        \* _process_element: the list root.xpath returned
    resIdx,     \* _process_element: index in res of `element`
    processed,  \* _process_element: the str salesforce_encoding returned
    ops         \* every file operation so far: <<"read" | "write", name>>

vars == <<options, elements, fs, pc, exc, stepIdx, globres, fileIdx, orig, root,
          res, resIdx, processed, ops>>

locals == <<orig, root, res, resIdx, processed>>

Files == {"f1", "f2"}

\* A step of `elements`: a dictionary with an xpath and a path.
Step(q, path) == [xpath |-> q, path |-> path]

\* bool(x) of an optional option value: None, "" and [] are falsy.
TruthyQuery(o) == o # None /\ o[1].k # "empty"

TruthyPath(o) == o # None /\ o[1] # ""

TruthyList(o) == o # None /\ o[1] # <<>>

\* The orders in which glob.glob may list a set of names.
Orders(S) ==
    {o \in [1..Cardinality(S) -> S] : \A i, j \in DOMAIN o : i # j => o[i] # o[j]}

\* glob.glob(pattern, recursive=True): "*" matches every file, a name matches
\* that file, anything else nothing.
Matching(pattern) ==
    IF pattern = "*" THEN Files
    ELSE IF pattern \in Files THEN {pattern}
    ELSE {}

\* Raise, had the loop over the files caught the exception and gone on.
RaiseAndGoOn(kind) ==
    /\ pc' = IF pc = "init_options" THEN "raised" ELSE "files"
    /\ exc' = kind

\* An exception nothing catches: it leaves _process_element, _run_task and
\* the task.
Raise(kind) ==
    /\ pc' = "raised"
    /\ exc' = kind

\* ----------------------------------------------------------------- actions

\* InitOptions without the test for a path given together with elements.
InitOptionsLax ==
    /\ pc = "init_options"
    /\ LET xp == options.xpath
           path == options.path
           els == options.elements
       IN  IF TruthyQuery(xp) /\ ~TruthyPath(path)
           THEN pc' = "raised" /\ exc' = "TaskOptionsError" /\ elements' = els
           ELSE IF TruthyPath(path) /\ ~TruthyQuery(xp)
           THEN pc' = "raised" /\ exc' = "TaskOptionsError" /\ elements' = els
           ELSE IF ~TruthyList(els) /\ ~TruthyPath(path)
           THEN pc' = "raised" /\ exc' = "TaskOptionsError" /\ elements' = els
           ELSE /\ elements' = IF ~TruthyList(els)
                               THEN Some(<<[xpath |-> xp[1], path |-> path[1]]>>)
                               ELSE els
                /\ pc' = "run"
                /\ exc' = exc
    /\ UNCHANGED <<options, fs, stepIdx, globres, fileIdx, orig, root, res,
                   resIdx, processed, ops>>

\* modify.py:51-68
InitOptions ==
    /\ pc = "init_options"
    /\ LET xp == options.xpath
           path == options.path
           els == options.elements
       IN  IF TruthyQuery(xp) /\ ~TruthyPath(path)
           THEN Raise("TaskOptionsError") /\ elements' = els
           ELSE IF TruthyPath(path) /\ ~TruthyQuery(xp)
           THEN Raise("TaskOptionsError") /\ elements' = els
           ELSE IF (TruthyPath(path) /\ TruthyList(els))
                   \/ (~TruthyList(els) /\ ~TruthyPath(path))
           THEN Raise("TaskOptionsError") /\ elements' = els
           ELSE /\ elements' = IF ~TruthyList(els)
                               THEN Some(<<Step(xp[1], path[1])>>)
                               ELSE els
                /\ pc' = "run"
                /\ exc' = exc
    /\ UNCHANGED <<options, fs, stepIdx, globres, fileIdx, locals, ops>>

\* modify.py:74-75 and 81: the next step of self.elements, and its glob.
StartStep ==
    /\ pc = "run"
    /\ stepIdx <= Len(elements[1])
    /\ \E listed \in Orders(Matching(elements[1][stepIdx].path)) :
           globres' = listed
    /\ fileIdx' = 1
    /\ pc' = "files"
    /\ UNCHANGED <<options, elements, fs, exc, stepIdx, locals, ops>>

\* modify.py:81: the glob's list is exhausted, _process_element returns.
EndStep ==
    /\ pc = "files"
    /\ fileIdx > Len(globres)
    /\ stepIdx' = stepIdx + 1
    /\ globres' = <<>>
    /\ fileIdx' = 1
    /\ pc' = "run"
    /\ UNCHANGED <<options, elements, fs, exc, locals, ops>>

\* modify.py:74: self.elements is exhausted, _run_task returns.
Finish ==
    /\ pc = "run"
    /\ stepIdx > Len(elements[1])
    /\ pc' = "done"
    /\ UNCHANGED <<options, elements, fs, exc, stepIdx, globres, fileIdx,
                   locals, ops>>

\* modify.py:83-84: open(f, "rb") and read, or an OSError.
ReadFile ==
    /\ pc = "files"
    /\ fileIdx <= Len(globres)
    /\ \E ok \in BOOLEAN :
           IF ok
           THEN /\ orig' = Bytes(fs[globres[fileIdx]])
                /\ ops' = Append(ops, <<"read", globres[fileIdx]>>)
                /\ pc' = "parse"
                /\ exc' = exc
           ELSE /\ Raise("OSError")
                /\ UNCHANGED <<orig, ops>>
    /\ UNCHANGED <<options, elements, fs, stepIdx, globres, fileIdx, root, res,
                   resIdx, processed>>

\* modify.py:85
ParseFile ==
    /\ pc = "parse"
    /\ LET doc == parse(fs[globres[fileIdx]])
       IN  IF doc.ok
           THEN /\ root' = doc.nodes
                /\ pc' = "xpath"
                /\ exc' = exc
           ELSE /\ Raise("XMLSyntaxError")
                /\ root' = root
    /\ UNCHANGED <<options, elements, fs, stepIdx, globres, fileIdx, orig, res,
                   resIdx, processed, ops>>

\* modify.py:86-93
EvalXPath ==
    /\ pc = "xpath"
    /\ LET found == xpath(root, elements[1][stepIdx].xpath)
       IN  IF found.ok
           THEN /\ res' = found.res
                /\ resIdx' = 1
                /\ pc' = "remove"
                /\ exc' = exc
           ELSE /\ Raise("XPathEvalError")
                /\ UNCHANGED <<res, resIdx>>
    /\ UNCHANGED <<options, elements, fs, stepIdx, globres, fileIdx, orig, root,
                   processed, ops>>

\* modify.py:94-95: one turn of the loop.  getparent() of the root is None,
\* and None has no remove.
RemoveElement ==
    /\ pc = "remove"
    /\ resIdx <= Len(res)
    /\ LET element == res[resIdx]
           parent == getparent(root, element)
       IN  IF parent # 0
           THEN /\ root' = remove(root, parent, element)
                /\ resIdx' = resIdx + 1
                /\ UNCHANGED <<pc, exc>>
           ELSE /\ Raise("AttributeError")
                /\ UNCHANGED <<root, resIdx>>
    /\ UNCHANGED <<options, elements, fs, stepIdx, globres, fileIdx, orig, res,
                   processed, ops>>

\* modify.py:97: the loop is over; salesforce_encoding also leaves its xmlns
\* on the root of the tree.
Serialize ==
    /\ pc = "remove"
    /\ resIdx > Len(res)
    /\ processed' = Str(salesforce_encoding(root))
    /\ root' = ForceXmlns(root)
    /\ pc' = "compare"
    /\ UNCHANGED <<options, elements, fs, exc, stepIdx, globres, fileIdx, orig,
                   res, resIdx, ops>>

\* modify.py:99: orig != processed, a bytes object against a str object.
Modified == PyNe(orig, processed)

\* modify.py:99-102, then the next f of the loop of line 81 (the locals keep
\* their values until the statements of the next turn assign them).  open(f, "w")
\* may fail and leave the file alone; a write that fails leaves it truncated.
CompareAndWrite ==
    /\ pc = "compare"
    /\ IF Modified
       THEN \E outcome \in {"written", "open fails", "write fails"} :
                /\ ops' = Append(ops, <<"write", globres[fileIdx]>>)
                /\ CASE outcome = "written" ->
                            /\ fs' = [fs EXCEPT ![globres[fileIdx]] = processed.data]
                            /\ fileIdx' = fileIdx + 1
                            /\ pc' = "files"
                            /\ exc' = exc
                     [] outcome = "open fails" ->
                            /\ Raise("OSError")
                            /\ UNCHANGED <<fs, fileIdx>>
                     [] outcome = "write fails" ->
                            /\ fs' = [fs EXCEPT ![globres[fileIdx]] = <<>>]
                            /\ Raise("OSError")
                            /\ UNCHANGED fileIdx
       ELSE /\ fileIdx' = fileIdx + 1
            /\ pc' = "files"
            /\ UNCHANGED <<fs, exc, ops>>
    /\ UNCHANGED <<options, elements, stepIdx, globres, locals>>

Next ==
    \/ InitOptions
    \/ StartStep
    \/ EndStep
    \/ Finish
    \/ ReadFile
    \/ ParseFile
    \/ EvalXPath
    \/ RemoveElement
    \/ Serialize
    \/ CompareAndWrite

\* ------------------------------------------------------------------ inputs

\* The most nodes (elements and comments, the root included) of a generated
\* document, and the most steps of an `elements` list.
MaxNodes == 3

MaxSteps == 2

NameAt(depth) ==
    CASE depth = 0 -> "Layout"
      [] depth = 1 -> "relatedLists"
      [] OTHER -> "field"

Texts == {<<>>, <<"x">>}

Tails == {<<>>, <<"\n">>}

SfDecl == <<" ", "xmlns", "=", "\"", SfUri, "\"">>

RECURSIVE ElementSrc(_, _, _)
RECURSIVE ForestSrc(_, _)
\* The source texts of an element of n nodes at a depth, hdr its attributes:
\* empty and self-closed, with text only, or with children after its text.
ElementSrc(depth, n, hdr) ==
    LET open == <<"<", NameAt(depth)>> \o hdr
        close == <<"<", "/", NameAt(depth), ">">>
    IN  IF n = 1
        THEN {open \o <<"/", ">">>, open \o <<">", "x">> \o close}
        ELSE {open \o <<">">> \o t \o f \o close :
                  t \in Texts, f \in ForestSrc(depth + 1, n - 1)}

\* The source texts of a child element or comment of k nodes.
ItemSrc(depth, k) ==
    ElementSrc(depth, k, <<>>)
    \cup (IF k = 1 THEN {<<"<!--", "c", "-->">>} ELSE {})

\* The source texts of n nodes of children, each followed by its tail.
ForestSrc(depth, n) ==
    IF n = 0 THEN {<<>>}
    ELSE UNION {{item \o tl \o rest :
                     item \in ItemSrc(depth, k), tl \in Tails,
                     rest \in ForestSrc(depth, n - k)} : k \in 1..n}

\* Files of the Salesforce namespace of up to MaxNodes nodes.
Generated ==
    UNION {{xml_encoding \o e \o <<"\n">> : e \in ElementSrc(0, n, SfDecl)} :
               n \in 1..MaxNodes}

\* The file of the scenario (spec.md, section 8).
Scenario ==
    xml_encoding
    \o <<"<", "Layout">> \o SfDecl \o <<">", "\n", " ", " ">>
    \o <<"<", "relatedLists", ">", "\n", " ", " ", " ", " ">>
    \o <<"<", "field", ">", "Name", "<", "/", "field", ">", "\n", " ", " ">>
    \o <<"<", "/", "relatedLists", ">", "\n">>
    \o <<"<", "/", "Layout", ">", "\n">>

\* A file that is already what salesforce_encoding writes.
Canonical ==
    xml_encoding \o <<"<", "Layout">> \o SfDecl
    \o <<">", "x", "<", "/", "Layout", ">", "\n">>

\* A file that is not well-formed.
Malformed == xml_encoding \o <<"<", "Layout", ">", "x">>

\* A root element with attributes hdr and one relatedLists child with
\* attributes kid, in the layout salesforce_encoding keeps.
WithAttrs(hdr, kid) ==
    xml_encoding \o <<"<", "Layout">> \o hdr \o <<">", "\n">>
    \o <<"<", "relatedLists">> \o kid \o <<">", "x", "<", "/", "relatedLists", ">", "\n">>
    \o <<"<", "/", "Layout", ">", "\n">>

Attr(k, v) == <<" ", k, "=", "\"">> \o v \o <<"\"">>

\* Files that vary what the generated ones fix: the namespace of the root
\* (none, another URI, a URI that extends the Salesforce one), attributes
\* and the characters of their values, an empty element written as a pair
\* of tags, no XML declaration, nested elements of one name.
Variants ==
    {Scenario, Canonical, Malformed,
     WithAttrs(<<>>, <<>>),
     WithAttrs(Attr("xmlns", <<"urn:other">>), <<>>),
     WithAttrs(Attr("xmlns", <<SfUri, "2">>), <<>>),
     WithAttrs(SfDecl \o Attr("a", <<"v">>), Attr("b", <<"w">>)),
     WithAttrs(Attr("a", <<"v">>) \o SfDecl, <<>>),
     WithAttrs(SfDecl, Attr("b", <<"&amp;">>)),
     WithAttrs(SfDecl, Attr("b", <<"&lt;">>)),
     WithAttrs(SfDecl, Attr("b", <<">">>)),
     WithAttrs(SfDecl, Attr("b", <<"'">>)),
     WithAttrs(SfDecl \o Attr("a", <<"&quot;">>), <<>>),
     xml_encoding \o <<"<", "Layout">> \o SfDecl
         \o <<">", "<", "/", "Layout", ">", "\n">>,
     <<"<", "Layout">> \o SfDecl \o <<">", "x", "<", "/", "Layout", ">", "\n">>}

Catalog == Generated \cup Variants

\* (//*)[position() = i or ...] for every set of ranks, //ns:relatedLists,
\* //ns:field, and an expression that does not compile.
DocQueries ==
    {Query("pos", "", set) : set \in SUBSET (1..MaxNodes)}
    \cup {Query("name", "relatedLists", {}), Query("name", "field", {}),
          Query("bad", "", {})}

QRelated == Query("name", "relatedLists", {})

QRoot == Query("pos", "", {1})

QBad == Query("bad", "", {})

QEmpty == Query("empty", "", {})

\* The steps the lists of `elements` are made of.
Steps ==
    {Step(QRelated, "*"), Step(QRelated, "f2"), Step(QRoot, "f2"),
     Step(QBad, "f1")}

StepLists == UNION {[1..n -> Steps] : n \in 1..MaxSteps}

Unbound ==
    /\ elements = None
    /\ pc = "init_options"
    /\ exc = ""
    /\ stepIdx = 1
    /\ globres = <<>>
    /\ fileIdx = 1
    /\ orig = Bytes(<<>>)
    /\ root = <<>>
    /\ res = <<>>
    /\ resIdx = 1
    /\ processed = Str(<<>>)
    /\ ops = <<>>

\* The task as constructed, with any options, over two files.
Init ==
    /\ options \in
           [xpath : {None, Some(QEmpty), Some(QRelated), Some(QRoot)},
            path : {None, Some(""), Some("f1"), Some("*")},
            elements : {None, Some(<<>>)} \cup {Some(l) : l \in StepLists}]
    /\ fs \in [Files -> {Scenario, Canonical, Malformed}]
    /\ Unbound

\* The task as constructed with one xpath and the path of one file, over
\* any file of the catalog.
InitDoc ==
    /\ options \in
           [xpath : {Some(q) : q \in DocQueries},
            path : {Some("f1")},
            elements : {None}]
    /\ \E doc \in Catalog : fs = [f \in Files |-> IF f = "f1" THEN doc ELSE Canonical]
    /\ Unbound

Spec == Init /\ [][Next]_vars

SpecDoc == InitDoc /\ [][Next]_vars

\* -------------------------------------------------- properties: vocabulary

Range(s) == {s[i] : i \in 1..Len(s)}

\* The positions at which pattern occurs in s.
Occurrences(pattern, s) ==
    {i \in 1..(Len(s) - Len(pattern) + 1) :
         SubSeq(s, i, i + Len(pattern) - 1) = pattern}

\* The position of e in a sequence without repetitions, 0 when absent.
IndexOf(s, e) == IF \E i \in 1..Len(s) : s[i] = e
                 THEN CHOOSE i \in 1..Len(s) : s[i] = e
                 ELSE 0

\* s without the elements outside set keep, order kept.
Restrict(s, keep) == LET In(e) == e \in keep IN SelectSeq(s, In)

\* The step at hand and its query.
CurrentStep == elements[1][stepIdx]

CurrentFile == globres[fileIdx]

\* The tree as it was parsed from the bytes read, before any removal.
Before == parse(orig.data).nodes

\* The loop of modify.py:94-95 has ended without an exception.
LoopDone == pc = "remove" /\ resIdx > Len(res)

\* salesforce_encoding has returned for the file at hand.
Serialized == pc = "compare"

\* ---------------------------------------------------------------- C1
\* C1: a file is written back only if the serialized content differs from
\* the content read from it; when nothing matched and the serialized text
\* equals the original content the file is not rewritten.  The file handled
\* last (pc = "files", fileIdx > 1) was written exactly when the last file
\* operation is a write.
C1_WriteOnlyIfDiffers ==
    (pc = "files" /\ fileIdx > 1 /\ ops[Len(ops)][1] = "write")
        => processed.data # orig.data

\* ---------------------------------------------------------------- C2
ScenarioCase ==
    /\ Serialized
    /\ orig.data = Scenario
    /\ CurrentStep.xpath = QRelated

\* C2 as stated: removing //ns:relatedLists from the scenario's file and
\* serializing gives the declaration line, the self-closed root and a
\* newline.
C2_ScenarioSelfClosed ==
    ScenarioCase =>
        processed.data = xml_encoding \o <<"<", "Layout">> \o SfDecl
                         \o <<"/", ">", "\n">>

\* C2 amended: the root keeps its leading text (a newline and two spaces),
\* so it is emitted with an open tag, that text, and a close tag followed by
\* a newline.
C2_ScenarioKeepsText ==
    ScenarioCase =>
        processed.data = xml_encoding \o <<"<", "Layout">> \o SfDecl
                         \o <<">", "\n", " ", " ", "<", "/", "Layout", ">", "\n">>

C2_Witness == ScenarioCase /\ Len(res) = 1

\* ---------------------------------------------------------------- C3
\* C3: every attribute value is emitted with ' " & < > replaced by &apos;
\* &quot; &amp; &lt; &gt;: for every attribute k = v of every element of the
\* serialized tree, the output holds k="v" with v so escaped.
C3_AttributesEscaped ==
    Serialized =>
        \A e \in Range(Elements(root, DocOrder(root, getroot))) :
            \A i \in 1..Len(root[e].attrib) :
                Contains(Attr(root[e].attrib[i].k, escape(root[e].attrib[i].v)),
                         processed.data)

\* ---------------------------------------------------------------- C4
\* The nodes of set S and their descendants in a tree.
Under(nodes, S) == UNION {Range(DocOrder(nodes, e)) : e \in S}

C5_FailFast == [][exc # "" => (fs' = fs /\ ops' = ops)]_vars

\* An exception after a completed write, with files or steps still to come.
C5_Witness ==
    /\ pc = "raised"
    /\ exc \in {"OSError", "XMLSyntaxError", "XPathEvalError", "AttributeError"}
    /\ \E i \in 1..Len(ops) : ops[i][1] = "write" /\ fs[ops[i][2]] # <<>>
    /\ fileIdx < Len(globres) \/ stepIdx < Len(elements[1])

\* ---------------------------------------------------------------- C6
\* An option is given when it is present and not empty.
BothGiven ==
    /\ TruthyQuery(options.xpath)
    /\ TruthyPath(options.path)
    /\ ~TruthyList(options.elements)

ListGiven ==
    /\ TruthyList(options.elements)
    /\ ~TruthyQuery(options.xpath)
    /\ ~TruthyPath(options.path)

\* C6: _init_options raises TaskOptionsError, before any file operation,
\* unless path and xpath are given without elements, or elements is given
\* without path and xpath; then the work list is the one {xpath, path} pair,
\* or the given list.
C6_OptionValidation ==
    pc # "init_options" =>
        /\ (exc = "TaskOptionsError") <=> ~(BothGiven \/ ListGiven)
        /\ exc = "TaskOptionsError" => (pc = "raised" /\ ops = <<>>)
        /\ BothGiven =>
               elements = Some(<<[xpath |-> options.xpath[1],
                                  path |-> options.path[1]]>>)
        /\ ListGiven => elements = options.elements

\* path and elements given together: rejected.
C6_Witness ==
    /\ exc = "TaskOptionsError"
    /\ TruthyPath(options.path)
    /\ TruthyQuery(options.xpath)
    /\ TruthyList(options.elements)

\* ---------------------------------------------------------------- C7
\* C7: when no removal was performed, salesforce_encoding returns the bytes
\* the document was parsed from.  Stated for the generated files whose root
\* has children: they carry the declaration salesforce_encoding writes, a
\* root in the Salesforce namespace and a final newline, and write every
\* empty element self-closed.
C7_Idempotence ==
    (Serialized /\ res = <<>> /\ orig.data \in Generated
     /\ Before[getroot].children # <<>>)
        => processed.data = orig.data

\* ---------------------------------------------------------------- C8
SfXmlns == <<" ", "xmlns", "=", "\"", SfUri, "\"">>

\* C8: xmlns="<Salesforce URI>" appears in the output once, in the start tag
\* of the root, when the root's tag as parsed is in exactly that namespace,
\* and not at all otherwise.
C8_NamespaceRule ==
    Serialized =>
        LET tag == Before[getroot].tag
            inSf == Len(tag) = 4 /\ SubSeq(tag, 1, 3) = NsAlias
            at == Occurrences(SfXmlns, processed.data)
            rootEnd == IndexFrom(processed.data, 1, {">"})
        IN  /\ Cardinality(at) = IF inSf THEN 1 ELSE 0
            /\ \A i \in at : i < rootEnd

\* ---------------------------------------------------------------- C9
RECURSIVE PostOrder(_, _)
RECURSIVE PostOrderAll(_, _)
\* Node e and its descendants, each after its children.
PostOrder(nodes, e) == PostOrderAll(nodes, nodes[e].children) \o <<e>>

PostOrderAll(nodes, kids) ==
    IF kids = <<>> THEN <<>>
    ELSE PostOrder(nodes, Head(kids)) \o PostOrderAll(nodes, Tail(kids))

\* The k-th least member of a set of numbers.
Kth(S, k) == CHOOSE i \in S : Cardinality({j \in S : j < i}) = k - 1

\* C9: an element with no child node and no (or empty) leading text is
\* emitted as <Tag .../> with no close tag and no tail; any other element is
\* emitted with an open tag and exactly one </Tag> of its name, followed by
\* its tail, or by a newline when it has none.  In the output: every element
\* has one start tag; the self-closing marks are as many as the elements
\* without content, each followed by markup or the end (never by a tail);
\* the close tags are as many as the elements with content, and the k-th is
\* the tag and tail of the k-th such element in the order elements end.
C9_SelfClosingRule ==
    Serialized =>
        LET out == processed.data
            Bare(e) == /\ root[e].children = <<>>
                       /\ root[e].text = None \/ root[e].text = Some(<<>>)
            Full(e) == ~Bare(e)
            all == Elements(root, DocOrder(root, getroot))
            bares == SelectSeq(all, Bare)
            fulls == SelectSeq(Elements(root, PostOrder(root, getroot)), Full)
            starts == {i \in 1..Len(out) : out[i] = "<" /\ IsName(At(out, i + 1))}
            selfs == Occurrences(<<"/", ">">>, out)
            closes == Occurrences(<<"<", "/">>, out)
        IN  /\ Cardinality(starts) = Len(all)
            /\ Cardinality(selfs) = Len(bares)
            /\ \A i \in selfs : At(out, i + 2) \in {"", "<", "<!--"}
            /\ Cardinality(closes) = Len(fulls)
            /\ \A k \in 1..Len(fulls) :
                   LET i == Kth(closes, k)
                       e == root[fulls[k]]
                       tail == IF e.tail = None \/ e.tail = Some(<<>>)
                               THEN <<"\n">> ELSE e.tail[1]
                       want == <<"<", "/", e.tag[Len(e.tag)], ">">> \o tail
                   IN  SubSeq(out, i, i + Len(want) - 1) = want

\* A self-closed element that has a tail next to an element with children.
C9_Witness ==
    /\ Serialized
    /\ \E e \in Range(DocOrder(root, getroot)) :
           /\ root[e].kind = "element"
           /\ root[e].children = <<>>
           /\ root[e].text = None
           /\ root[e].tail # None
    /\ root[getroot].children # <<>>

\* ---------------------------------------------------------------- C10
\* C10: the matches are removed in document order; every match but the
\* root has a parent when its turn comes, even after an ancestor of it was
\* removed; a match set that holds the root raises before the file is
\* written, and the file keeps the content that was read.
C10_RemovalOrder ==
    /\ pc \in {"remove", "compare"} =>
           LET was == DocOrder(Before, getroot)
           IN  \A i, j \in 1..Len(res) :
                   i < j => IndexOf(was, res[i]) < IndexOf(was, res[j])
    /\ pc = "remove" =>
           {e \in 2..Len(root) : root[e].parent = 0}
               = {res[i] : i \in 1..(resIdx - 1)}
    /\ (pc = "remove" /\ resIdx <= Len(res) /\ res[resIdx] # getroot) =>
           root[res[resIdx]].parent # 0
    /\ pc = "compare" => getroot \notin Range(res)
    /\ exc = "AttributeError" =>
           /\ getroot \in Range(res)
           /\ fs[CurrentFile] = orig.data
           /\ ops[Len(ops)] = <<"read", CurrentFile>>

\* The second match is up for removal and lies under the first, which was
\* removed.
C10_Witness ==
    /\ pc = "remove"
    /\ resIdx = 2
    /\ Len(res) >= 2
    /\ res[2] \in Under(Before, {res[1]})
    /\ root[res[1]].parent = 0

====
